---- MODULE Spec2Model ----
\* FB2 -> EPUB converter (converter.py): the parsed document tree, the content
\* formatter, the metadata extractor, the chapter assembler, the packager and
\* the single-file / archive drivers.
EXTENDS Integers, Sequences, FiniteSets, TLC

VARIABLES
    soup,        \* the parsed FB2 tree handed to the function under study
    content,     \* fragments returned by process_section_elements
    metadata,    \* tuple returned by extract_metadata
    book,        \* the EpubBook as it stands when write_epub is called
    input,       \* the file / archive named by the caller's path argument
    fb2_content, \* the bytes handed to convert_fb2_to_epub
    output_path, \* the local output_path of the running driver
    exc,         \* the exception travelling to the except clause
    pc,          \* position of the running call
    idx,         \* convert_archive: position of the entry loop
    epub_files,  \* convert_archive: paths collected so far
    ret,         \* what the call handed back to its caller
    fs,          \* output files on disk: path -> book written there
    log          \* messages passed to logging.error / logging.warning

vars == <<soup, content, metadata, book, input, fb2_content, output_path, exc, pc,
          idx, epub_files, ret, fs, log>>

\* ---------------------------------------------------------------------------
\* Bounds
\* ---------------------------------------------------------------------------
MaxSectionNodes == 4   \* nodes below the section root (content formatter)
MaxMetaNodes == 5      \* nodes of the description forest (metadata extractor)
MaxBodyNodes == 4      \* nodes of the body forest (chapter assembler)
MaxEntries == 3        \* entries of a ZIP archive

\* ---------------------------------------------------------------------------
\* The document tree (BeautifulSoup).  A tree is the sequence of its nodes in
\* document order, each with its depth; node 0 stands for the soup itself.
\* An element carries the text that precedes its first child; text that
\* follows a child is a "#text" leaf, so mixed content keeps its order.
\* ---------------------------------------------------------------------------
NoAttrs == [a \in {} |-> ""]

Elem(tag) == [tag |-> tag, text |-> "", attrs |-> NoAttrs]
ElemT(tag, text) == [tag |-> tag, text |-> text, attrs |-> NoAttrs]
ElemA(tag, text, name, value) == [tag |-> tag, text |-> text, attrs |-> (name :> value)]
Text(s) == [tag |-> "#text", text |-> s, attrs |-> NoAttrs]

At(kind, d) == [tag |-> kind.tag, text |-> kind.text, attrs |-> kind.attrs, depth |-> d]

DepthOf(t, i) == IF i = 0 THEN -1 ELSE t[i].depth

\* j lies in the subtree below i
IsDescendant(t, i, j) ==
    /\ j > i
    /\ j <= Len(t)
    /\ \A k \in (i + 1)..j : t[k].depth > DepthOf(t, i)

Range(s) == {s[k] : k \in DOMAIN s}

Indices(t) == [k \in 1..Len(t) |-> k]

\* Tag.find_all(names): matching descendants in document order
find_all(t, i, tags) ==
    SelectSeq(Indices(t), LAMBDA j : IsDescendant(t, i, j) /\ t[j].tag \in tags)

\* Tag.find(names): first matching descendant, 0 for None
find(t, i, tags) ==
    LET all == find_all(t, i, tags) IN IF all = <<>> THEN 0 ELSE all[1]

\* Tag.find(name, {attr: values}): first descendant with the tag whose
\* attribute is one of the values
find_attr(t, i, tag, name, values) ==
    LET all == SelectSeq(Indices(t), LAMBDA j :
                   /\ IsDescendant(t, i, j)
                   /\ t[j].tag = tag
                   /\ name \in DOMAIN t[j].attrs
                   /\ t[j].attrs[name] \in values)
    IN IF all = <<>> THEN 0 ELSE all[1]

\* Tag.find_parent(name): nearest ancestor with the tag, 0 for None
find_parent(t, j, tag) ==
    LET anc == {i \in 1..(j - 1) : IsDescendant(t, i, j) /\ t[i].tag = tag}
    IN IF anc = {} THEN 0 ELSE CHOOSE i \in anc : \A k \in anc : k <= i

\* Tag.get(name, default)
get(t, i, name, default) ==
    IF name \in DOMAIN t[i].attrs THEN t[i].attrs[name] ELSE default

RECURSIVE ConcatText(_, _, _)
ConcatText(t, i, j) ==
    IF j > Len(t) \/ ~IsDescendant(t, i, j) THEN ""
    ELSE t[j].text \o ConcatText(t, i, j + 1)

\* Tag.get_text() / Tag.text: the text leaves of the subtree, concatenated
get_text(t, i) == t[i].text \o ConcatText(t, i, i + 1)

\* str.strip() on one text piece; pieces are either blank or free of blanks
Blank == {"", " "}
strip(s) == IF s \in Blank THEN "" ELSE s

RECURSIVE ConcatStripped(_, _, _)
ConcatStripped(t, i, j) ==
    IF j > Len(t) \/ ~IsDescendant(t, i, j) THEN ""
    ELSE strip(t[j].text) \o ConcatStripped(t, i, j + 1)

\* Tag.get_text(strip=True): every piece stripped, empty pieces dropped
get_text_strip(t, i) == strip(t[i].text) \o ConcatStripped(t, i, i + 1)

\* ---------------------------------------------------------------------------
\* Bounded families of trees.  A schema maps a parent tag to the kinds of node
\* that may be appended below it.
\* ---------------------------------------------------------------------------
ParentTag(t, d) ==
    IF d = 0 THEN "#document"
    ELSE LET above == {k \in 1..Len(t) : t[k].depth = d - 1}
         IN t[CHOOSE k \in above : \A m \in above : m <= k].tag

Allowed(schema, tag) == IF tag \in DOMAIN schema THEN schema[tag] ELSE {}

Extensions(schema, t, minDepth) ==
    LET top == IF t = <<>> THEN 0 ELSE t[Len(t)].depth + 1
    IN UNION { {Append(t, At(kind, d)) : kind \in Allowed(schema, ParentTag(t, d))}
               : d \in minDepth..top }

RECURSIVE Grow(_, _, _, _)
Grow(schema, S, minDepth, n) ==
    IF n = 0 THEN S
    ELSE S \cup Grow(schema, UNION {Extensions(schema, t, minDepth) : t \in S},
                     minDepth, n - 1)

\* trees with the given root node and at most n nodes below it
TreesUnder(schema, root, n) == Grow(schema, {<<At(root, 0)>>}, 1, n)

\* forests of at most n nodes
Forests(schema, n) == Grow(schema, {<<>>}, 0, n)

SectionSchema ==
    [section   |-> {ElemT("p", "x"), ElemT("a", "y"), ElemT("subtitle", "s"),
                    Elem("title"), Elem("section")},
     title     |-> {ElemT("p", "t")},
     p         |-> {ElemT("emphasis", "e"), ElemA("a", "y", "l:href", "u"), Text("z")}]

\* sections with at most n nodes below the root
SectionTrees(n) == TreesUnder(SectionSchema, Elem("section"), n)

\* ---------------------------------------------------------------------------
\* Content formatter
\* ---------------------------------------------------------------------------
P_OPEN == "<p style=\"text-indent: 1em;\">"

\* process_paragraph with the link test ahead of the emphasis test
process_paragraph_link_first(t, p) ==
    LET p_text == get_text(t, p)
    IN IF find(t, p, {"a"}) # 0 THEN ""
       ELSE IF find(t, p, {"emphasis"}) # 0 THEN "<i>" \o p_text \o "</i>"
       ELSE p_text

\* process_paragraph(paragraph)
process_paragraph(t, p) ==
    LET p_text == get_text(t, p)
    IN IF find(t, p, {"emphasis"}) # 0 THEN "<i>" \o p_text \o "</i>"
       ELSE IF find(t, p, {"a"}) # 0 THEN ""
       ELSE p_text

\* one `content += ...` of process_section_elements; src is the element the
\* fragment was made from
Fragment(t, e) ==
    IF t[e].tag = "p" /\ find_parent(t, e, "title") = 0
    THEN <<[src |-> e, html |-> P_OPEN \o process_paragraph(t, e) \o "</p>"]>>
    ELSE IF t[e].tag = "a"
    THEN <<[src |-> e,
            html |-> "<a href=\"" \o get(t, e, "l:href", "href") \o "\">"
                     \o get_text(t, e) \o "</a>"]>>
    ELSE IF t[e].tag = "subtitle"
    THEN <<[src |-> e,
            html |-> P_OPEN \o "<subtitle>" \o get_text(t, e) \o "</subtitle></p>"]>>
    ELSE <<>>

RECURSIVE AppendFragments(_, _, _)
AppendFragments(t, elements, k) ==
    IF k > Len(elements) THEN <<>>
    ELSE Fragment(t, elements[k]) \o AppendFragments(t, elements, k + 1)

\* process_section_elements(section): the fragments in the order they are
\* appended to `content`
process_section_elements(t, section) ==
    AppendFragments(t, find_all(t, section, {"p", "a", "subtitle"}), 1)

\* ---------------------------------------------------------------------------
\* Metadata extractor
\* ---------------------------------------------------------------------------
MetaSchema ==
    ("#document" :> {Elem("title-info")})
    @@ ("title-info" :> {ElemT("book-title", "Test"), ElemT("book-title", "Other"),
                         ElemT("lang", "ru"), Elem("author"), Elem("annotation")})
    @@ ("author" :> {ElemT("first-name", "Ann"), Elem("first-name"),
                     ElemT("middle-name", "B"), ElemT("last-name", "Lee")})

\* descriptions of at most n nodes
MetaSoups(n) == Forests(MetaSchema, n)

RECURSIVE join(_, _)
\* sep.join(parts)
join(sep, parts) ==
    IF parts = <<>> THEN ""
    ELSE IF Len(parts) = 1 THEN parts[1]
    ELSE parts[1] \o sep \o join(sep, Tail(parts))

NameTags == <<"first-name", "middle-name", "last-name">>

\* ' '.join(author.find(tag).text for tag in [...] if author.find(tag))
author_name(t, author) ==
    LET present == SelectSeq(NameTags, LAMBDA tag : find(t, author, {tag}) # 0)
    IN join(" ", [k \in 1..Len(present) |-> get_text(t, find(t, author, {present[k]}))])

\* the author list with the authors that have no name part left out
author_names_skip_empty(t, author_tags) ==
    LET named == SelectSeq(author_tags, LAMBDA a : find(t, a, Range(NameTags)) # 0)
    IN [k \in 1..Len(named) |-> author_name(t, named[k])]

\* the list comprehension over author_tags
author_names(t, author_tags) ==
    [k \in 1..Len(author_tags) |-> author_name(t, author_tags[k])]

\* extract_metadata(soup); `language` is computed and not returned
extract_metadata(t) ==
    LET title_info == find(t, 0, {"title-info"})
        title_tag == find(t, title_info, {"book-title"})
        lang_tag == find(t, title_info, {"lang"})
        language == IF title_info # 0 /\ lang_tag # 0 THEN get_text(t, lang_tag) ELSE "en"
        annotation_tag == find(t, title_info, {"annotation"})
    IN IF title_info = 0
       THEN [title |-> "Unknown Title", authors |-> <<>>, annotation |-> 0]
       ELSE [title |-> IF title_tag # 0 THEN get_text(t, title_tag) ELSE "Unknown Title",
             authors |-> author_names(t, find_all(t, title_info, {"author"})),
             annotation |-> annotation_tag]

\* ---------------------------------------------------------------------------
\* Cover extractor, chapter assembler and packager
\* ---------------------------------------------------------------------------
DescriptionSchema ==
    ("title-info" :> {ElemT("book-title", "Test"), ElemT("lang", "ru"),
                      Elem("annotation")})
    @@ ("annotation" :> {ElemT("p", "About")})

\* no title-info, or a title-info with at most two nodes below it
Descriptions == {<<>>} \cup TreesUnder(DescriptionSchema, Elem("title-info"), 2)

BodySchema ==
    ("#document" :> {Elem("body")})
    @@ ("body" :> {Elem("section")})
    @@ ("section" :> {Elem("section"), Elem("title"), ElemT("p", "Hello")})
    @@ ("title" :> {ElemT("p", "Intro"), ElemT("p", " ")})

\* payloads: "QUJD" is the base64 of "ABC", "QUJ" has incorrect padding
BinarySchema ==
    ("#document" :> {ElemA("binary", "QUJD", "content-type", "image/jpeg"),
                     ElemA("binary", "QUJ", "content-type", "image/jpg"),
                     ElemA("binary", "QUJD", "content-type", "image/png")})

\* no binary node, or one
Binaries == Forests(BinarySchema, 1)

\* documents: description, then bodies of at most n nodes, then binaries
Soups(n) ==
    {d \o b \o c : d \in Descriptions, b \in Forests(BodySchema, n), c \in Binaries}

\* base64.b64decode(s) on the payloads above
b64decode(s) ==
    IF s = "QUJD" THEN [raised |-> FALSE, data |-> "ABC"]
    ELSE IF s = "" THEN [raised |-> FALSE, data |-> ""]
    ELSE [raised |-> TRUE, data |-> ""]

\* the 'nav' marker of the spine
Nav == [file_name |-> "nav", title |-> "", content |-> <<>>]
NoItem == [file_name |-> "", title |-> "", content |-> <<>>]

\* epub.EpubBook()
EpubBook == [title |-> "", language |-> "", authors |-> <<>>, items |-> <<>>,
             spine |-> <<>>, toc |-> <<>>]

add_item(b, item) == [b EXCEPT !.items = Append(@, item)]

\* EpubBook.set_cover(file_name, content, create_page=True): the image item
\* and the generated cover page
set_cover(b, file_name, data, src) ==
    add_item(add_item(b, [file_name |-> file_name, title |-> "",
                          content |-> <<[src |-> src, html |-> data]>>]),
             [file_name |-> "cover.xhtml", title |-> "Cover", content |-> <<>>])

\* extract_cover_image without the except clause
extract_cover_image_uncaught(t, b) ==
    LET cover_image_tag == find_attr(t, 0, "binary", "content-type",
                                     {"image/jpeg", "image/jpg"})
        decoded == b64decode(strip(get_text(t, cover_image_tag)))
    IN IF cover_image_tag = 0
       THEN [book |-> b, warned |-> FALSE, raised |-> FALSE]
       ELSE IF decoded.raised
       THEN [book |-> b, warned |-> FALSE, raised |-> TRUE]
       ELSE [book |-> set_cover(b, "cover.jpg", decoded.data, cover_image_tag),
             warned |-> FALSE, raised |-> FALSE]

\* extract_cover_image(soup, epub_book): `warned` records the logged warning,
\* `raised` an exception leaving the function
extract_cover_image(t, b) ==
    LET cover_image_tag == find_attr(t, 0, "binary", "content-type",
                                     {"image/jpeg", "image/jpg"})
        decoded == b64decode(strip(get_text(t, cover_image_tag)))
    IN IF cover_image_tag = 0
       THEN [book |-> b, warned |-> FALSE, raised |-> FALSE]
       ELSE IF decoded.raised
       THEN [book |-> b, warned |-> TRUE, raised |-> FALSE]
       ELSE [book |-> set_cover(b, "cover.jpg", decoded.data, cover_image_tag),
             warned |-> FALSE, raised |-> FALSE]

RECURSIVE Flatten(_)
Flatten(ss) == IF ss = <<>> THEN <<>> ELSE Head(ss) \o Flatten(Tail(ss))

\* the sections in the order the two loops of create_epub_chapters visit
\* them, each with the position of its body
SectionVisits(t) ==
    LET bodies == find_all(t, 0, {"body"})
    IN Flatten([b \in 1..Len(bodies) |->
                  LET secs == find_all(t, bodies[b], {"section"})
                  IN [k \in 1..Len(secs) |-> [body |-> b, section |-> secs[k]]]])

\* chapter_count restarting at 1 in every body
chapter_counts_reset_per_body(visits) ==
    [k \in 1..Len(visits) |->
        Cardinality({m \in 1..k : visits[m].body = visits[k].body})]

\* chapter_count of every visit: incremented once per section, never reset
chapter_counts(visits) == [k \in 1..Len(visits) |-> k]

\* the chapter built by one iteration of the inner loop
Chapter(t, section, chapter_count) ==
    LET title_tag == find(t, section, {"title"})
        section_title == IF title_tag # 0 THEN get_text_strip(t, title_tag)
                         ELSE "Chapter " \o ToString(chapter_count)
    IN [file_name |-> "chapter_" \o ToString(chapter_count) \o ".xhtml",
        title |-> section_title,
        content |-> <<[src |-> section, html |-> "<h1>" \o section_title \o "</h1>"]>>
                    \o process_section_elements(t, section)]

\* epub.Link(href, title, uid) for a chapter
ChapterLink(chapter, chapter_count) ==
    [href |-> chapter.file_name, title |-> chapter.title,
     uid |-> "chapter_" \o ToString(chapter_count)]

\* create_epub_chapters(soup, epub_book): the book with the chapters added
\* and the spine assigned, and the returned toc
create_epub_chapters(t, b) ==
    LET visits == SectionVisits(t)
        counts == chapter_counts(visits)
        chapters == [k \in 1..Len(visits) |-> Chapter(t, visits[k].section, counts[k])]
    IN [book |-> [b EXCEPT !.items = @ \o chapters, !.spine = <<Nav>> \o chapters],
        toc |-> [k \in 1..Len(visits) |-> ChapterLink(chapters[k], counts[k])]]

\* add_annotation_to_book(book, annotation_content): the book and the
\* returned chapter (NoItem for None)
add_annotation_to_book(t, b, annotation_content) ==
    IF annotation_content # 0
    THEN LET annotation_chapter ==
                 [file_name |-> "annotation.xhtml", title |-> "Annotation",
                  content |-> <<[src |-> annotation_content,
                                 html |-> "<h1>Annotation</h1>"]>>
                              \o process_section_elements(t, annotation_content)]
         IN [book |-> [add_item(b, annotation_chapter)
                          EXCEPT !.spine = <<annotation_chapter>> \o @],
             chapter |-> annotation_chapter]
    ELSE [book |-> b, chapter |-> NoItem]

Ncx == [file_name |-> "toc.ncx", title |-> "", content |-> <<>>]
NavDocument == [file_name |-> "nav.xhtml", title |-> "", content |-> <<>>]

\* ---------------------------------------------------------------------------
\* Packager: the statements of convert_fb2_to_epub between its calls
\* ---------------------------------------------------------------------------
\* EpubBook(), set_title, set_language('en'), add_author for every author
start_book(md) ==
    [EpubBook EXCEPT !.title = md.title, !.language = "en", !.authors = md.authors]

\* chapters_toc = create_epub_chapters(soup, book); book.toc.append(link) for
\* every link
append_chapters(t, b) ==
    [create_epub_chapters(t, b).book EXCEPT !.toc = @ \o create_epub_chapters(t, b).toc]

\* annotation_chapter = add_annotation_to_book(book, annotation_content) and
\* the `if annotation_chapter:` block after it
insert_annotation(t, b, annotation_content) ==
    LET ann == add_annotation_to_book(t, b, annotation_content)
    IN IF ann.chapter # NoItem
       THEN [ann.book EXCEPT
               !.toc = <<[href |-> ann.chapter.file_name,
                          title |-> ann.chapter.title,
                          uid |-> "annotation"]>> \o @,
               !.spine = <<ann.chapter>> \o @]
       ELSE ann.book

\* book.add_item(epub.EpubNcx()); book.add_item(epub.EpubNav())
add_navigation(b) == add_item(add_item(b, Ncx), NavDocument)

\* epub.write_epub(output_path, book, {}) on the files `files`
write_epub(files, path, b) ==
    [q \in DOMAIN files \cup {path} |-> IF q = path THEN b ELSE files[q]]

\* ---------------------------------------------------------------------------
\* Inputs of the drivers
\* ---------------------------------------------------------------------------
\* the library call of a conversion that raises: none, reading the bytes,
\* BeautifulSoup(...), or epub.write_epub(...)
Faults == {"none", "read", "parse", "write"}

\* a missing path, or a file holding one of the documents
Files(soups) ==
    {[kind |-> "file", exists |-> FALSE, name |-> [base |-> "book", ext |-> ".fb2"],
      content |-> [fault |-> "none", soup |-> <<>>]]}
    \cup {[kind |-> "file", exists |-> TRUE, name |-> [base |-> "book", ext |-> ".fb2"],
           content |-> [fault |-> f, soup |-> t]] : f \in Faults, t \in soups}

ArchiveSoups == {<<At(Elem("body"), 0), At(Elem("section"), 1)>>}

\* the k-th entry of an archive: an FB2 member or another file
EntriesAt(k) ==
    {[name |-> [base |-> "e" \o ToString(k), ext |-> ".txt"],
      content |-> [fault |-> "none", soup |-> <<>>]]}
    \cup {[name |-> [base |-> "e" \o ToString(k), ext |-> ".fb2"],
           content |-> [fault |-> f, soup |-> t]] : f \in Faults, t \in ArchiveSoups}

RECURSIVE EntryLists(_)
\* the listings of exactly n entries
EntryLists(n) ==
    IF n = 0 THEN {<<>>}
    ELSE {Append(es, e) : es \in EntryLists(n - 1), e \in EntriesAt(n)}

\* a missing path, or an archive of at most n entries
Archives(n) ==
    {[kind |-> "archive", exists |-> FALSE, entries |-> <<>>]}
    \cup {[kind |-> "archive", exists |-> TRUE, entries |-> es] :
            es \in UNION {EntryLists(k) : k \in 0..n}}

\* ---------------------------------------------------------------------------
\* Initial states
\* ---------------------------------------------------------------------------
NoBook == [title |-> "", language |-> "", authors |-> <<>>, items |-> <<>>,
           spine |-> <<>>, toc |-> <<>>]
NoContent == [fault |-> "none", soup |-> <<>>]
NoRet == [kind |-> "none", value |-> ""]
NoMetadata == [title |-> "", authors |-> <<>>, annotation |-> 0]
NoFiles == [q \in {} |-> NoBook]
Unbound == "<unbound>"

Fresh ==
    /\ content = <<>>
    /\ metadata = NoMetadata
    /\ book = NoBook
    /\ output_path = Unbound
    /\ exc = ""
    /\ idx = 0
    /\ epub_files = <<>>
    /\ ret = NoRet
    /\ fs = NoFiles
    /\ log = <<>>

\* process_section_elements(section) about to be called
InitSection ==
    /\ soup \in SectionTrees(MaxSectionNodes)
    /\ input = [kind |-> "section"]
    /\ fb2_content = NoContent
    /\ pc = "section"
    /\ Fresh

\* extract_metadata(soup) about to be called
InitMeta ==
    /\ soup \in MetaSoups(MaxMetaNodes)
    /\ input = [kind |-> "soup"]
    /\ fb2_content = NoContent
    /\ pc = "meta"
    /\ Fresh

\* convert_fb2_to_epub(fb2_content, 'out.epub') about to be called
InitBook ==
    /\ fb2_content \in {[fault |-> "none", soup |-> t] : t \in Soups(MaxBodyNodes)}
    /\ input = [kind |-> "content"]
    /\ soup = <<>>
    /\ pc = "convert"
    /\ content = <<>>
    /\ metadata = NoMetadata
    /\ book = NoBook
    /\ output_path = "out.epub"
    /\ exc = ""
    /\ idx = 0
    /\ epub_files = <<>>
    /\ ret = NoRet
    /\ fs = NoFiles
    /\ log = <<>>

\* convert_file(fb2_path) about to be called
InitFile ==
    /\ input \in Files(Soups(2))
    /\ soup = <<>>
    /\ fb2_content = NoContent
    /\ pc = "file"
    /\ Fresh

\* convert_archive(zip_path) about to be called
InitArchive ==
    /\ input \in Archives(MaxEntries)
    /\ soup = <<>>
    /\ fb2_content = NoContent
    /\ pc = "archive"
    /\ Fresh

\* ---------------------------------------------------------------------------
\* Calls of the formatter and of the metadata extractor
\* ---------------------------------------------------------------------------
ProcessSectionElements ==
    /\ pc = "section"
    /\ content' = process_section_elements(soup, 1)
    /\ pc' = "formatted"
    /\ UNCHANGED <<soup, metadata, book, input, fb2_content, output_path, exc, idx,
                   epub_files, ret, fs, log>>

ExtractMetadata ==
    /\ pc = "meta"
    /\ metadata' = extract_metadata(soup)
    /\ pc' = "extracted"
    /\ UNCHANGED <<soup, content, book, input, fb2_content, output_path, exc, idx,
                   epub_files, ret, fs, log>>

\* ---------------------------------------------------------------------------
\* convert_fb2_to_epub(fb2_content, output_path), statement by statement; an
\* exception moves the caller to its except clause
\* ---------------------------------------------------------------------------
\* BeautifulSoup(...), extract_metadata, EpubBook() and its metadata
ParseContent ==
    /\ pc = "convert"
    /\ IF fb2_content.fault = "parse"
       THEN /\ exc' = "parse"
            /\ pc' = "except"
            /\ UNCHANGED <<soup, metadata, book>>
       ELSE /\ soup' = fb2_content.soup
            /\ metadata' = extract_metadata(fb2_content.soup)
            /\ book' = start_book(extract_metadata(fb2_content.soup))
            /\ pc' = "cover"
            /\ exc' = exc
    /\ UNCHANGED <<content, input, fb2_content, output_path, idx, epub_files, ret,
                   fs, log>>

\* extract_cover_image(soup, book)
ExtractCover ==
    /\ pc = "cover"
    /\ \E r \in {extract_cover_image(soup, book)} :
          IF r.raised
          THEN /\ exc' = "cover"
               /\ pc' = "except"
               /\ UNCHANGED <<book, log>>
          ELSE /\ book' = r.book
               /\ log' = IF r.warned
                         THEN Append(log, "Failed to decode cover image")
                         ELSE log
               /\ pc' = "chapters"
               /\ exc' = exc
    /\ UNCHANGED <<soup, content, metadata, input, fb2_content, output_path, idx,
                   epub_files, ret, fs>>

\* create_epub_chapters(soup, book) and the loop appending its links
CreateChapters ==
    /\ pc = "chapters"
    /\ book' = append_chapters(soup, book)
    /\ pc' = "annotation"
    /\ UNCHANGED <<soup, content, metadata, input, fb2_content, output_path, exc, idx,
                   epub_files, ret, fs, log>>

\* add_annotation_to_book(book, annotation_content) and the block after it
AddAnnotation ==
    /\ pc = "annotation"
    /\ book' = insert_annotation(soup, book, metadata.annotation)
    /\ pc' = "write"
    /\ UNCHANGED <<soup, content, metadata, input, fb2_content, output_path, exc, idx,
                   epub_files, ret, fs, log>>

\* the NCX and Nav items and epub.write_epub(output_path, book, {})
WriteEpub ==
    /\ pc = "write"
    /\ book' = add_navigation(book)
    /\ IF fb2_content.fault = "write"
       THEN /\ exc' = "write"
            /\ pc' = "except"
            /\ fs' = fs
       ELSE /\ fs' = write_epub(fs, output_path, add_navigation(book))
            /\ pc' = "converted"
            /\ exc' = exc
    /\ UNCHANGED <<soup, content, metadata, input, fb2_content, output_path, idx,
                   epub_files, ret, log>>

\* ---------------------------------------------------------------------------
\* convert_file(fb2_path)
\* ---------------------------------------------------------------------------
Returned(value) == [kind |-> "returned", value |-> value]
Raised(exception) == [kind |-> "raised", value |-> exception]

\* base name + '.epub'
EpubPath(base_name) == base_name \o ".epub"

\* the existence test, the read and the assignment of output_path
FileOpen ==
    /\ pc = "file"
    /\ IF ~input.exists
       THEN /\ exc' = "FB2 file does not exist"
            /\ pc' = "except"
            /\ UNCHANGED <<fb2_content, output_path>>
       ELSE IF input.content.fault = "read"
       THEN /\ exc' = "read"
            /\ pc' = "except"
            /\ UNCHANGED <<fb2_content, output_path>>
       ELSE /\ fb2_content' = input.content
            /\ output_path' = EpubPath(input.name.base)
            /\ pc' = "convert"
            /\ exc' = exc
    /\ UNCHANGED <<soup, content, metadata, book, input, idx, epub_files, ret, fs, log>>

\* `return output_path` with the local unbound or bound
return_output_path(path) ==
    IF path = Unbound THEN Raised("UnboundLocalError") ELSE Returned(path)

\* convert_fb2_to_epub returned: `return output_path`
FileCreated ==
    /\ pc = "converted"
    /\ input.kind = "file"
    /\ ret' = return_output_path(output_path)
    /\ pc' = "done"
    /\ UNCHANGED <<soup, content, metadata, book, input, fb2_content, output_path, exc,
                   idx, epub_files, fs, log>>

\* the except clause, then `return output_path`
FileExcept ==
    /\ pc = "except"
    /\ input.kind = "file"
    /\ log' = Append(log, "Failed to convert FB2 to EPUB: " \o exc)
    /\ ret' = return_output_path(output_path)
    /\ pc' = "done"
    /\ UNCHANGED <<soup, content, metadata, book, input, fb2_content, output_path, exc,
                   idx, epub_files, fs>>

\* ---------------------------------------------------------------------------
\* convert_archive(zip_path)
\* ---------------------------------------------------------------------------
\* [f for f in zip_ref.namelist() if f.endswith('.fb2')]
fb2_files(entries) == SelectSeq(entries, LAMBDA e : e.name.ext = ".fb2")

\* the existence test and the listing of the FB2 entries
ArchiveList ==
    /\ pc = "archive"
    /\ epub_files' = <<>>
    /\ IF ~input.exists
       THEN exc' = "ZIP file does not exist" /\ pc' = "except" /\ idx' = idx
       ELSE IF fb2_files(input.entries) = <<>>
       THEN exc' = "No FB2 files found in the ZIP archive" /\ pc' = "except" /\ idx' = idx
       ELSE exc' = exc /\ pc' = "loop" /\ idx' = 1
    /\ UNCHANGED <<soup, content, metadata, book, input, fb2_content, output_path, ret,
                   fs, log>>

\* the head of one loop iteration: zip_ref.read and the output path
ArchiveReadEntry ==
    /\ pc = "loop"
    /\ idx <= Len(fb2_files(input.entries))
    /\ \E entry \in {fb2_files(input.entries)[idx]} :
          IF entry.content.fault = "read"
          THEN /\ exc' = "read"
               /\ pc' = "except"
               /\ UNCHANGED <<fb2_content, output_path>>
          ELSE /\ fb2_content' = entry.content
               /\ output_path' = EpubPath(entry.name.base)
               /\ pc' = "convert"
               /\ exc' = exc
    /\ UNCHANGED <<soup, content, metadata, book, input, idx, epub_files, ret, fs, log>>

\* convert_fb2_to_epub returned: epub_files.append(output_path), next entry
ArchiveCollect ==
    /\ pc = "converted"
    /\ input.kind = "archive"
    /\ epub_files' = Append(epub_files, output_path)
    /\ idx' = idx + 1
    /\ pc' = "loop"
    /\ UNCHANGED <<soup, content, metadata, book, input, fb2_content, output_path, exc,
                   ret, fs, log>>

\* the except clause with the exception raised again
archive_except_reraise(files_so_far, exception) == Raised(exception)

\* what the caller gets once the except clause has run
archive_except(files_so_far, exception) == Returned(files_so_far)

\* the except clause, then `return epub_files`
ArchiveExcept ==
    /\ pc = "except"
    /\ input.kind = "archive"
    /\ log' = Append(log, "Failed to convert FB2 archive to EPUB: " \o exc)
    /\ ret' = archive_except(epub_files, exc)
    /\ pc' = "done"
    /\ UNCHANGED <<soup, content, metadata, book, input, fb2_content, output_path, exc,
                   idx, epub_files, fs>>

\* the loop is exhausted: `return epub_files`
ArchiveReturn ==
    /\ pc = "loop"
    /\ idx > Len(fb2_files(input.entries))
    /\ ret' = Returned(epub_files)
    /\ pc' = "done"
    /\ UNCHANGED <<soup, content, metadata, book, input, fb2_content, output_path, exc,
                   idx, epub_files, fs, log>>

\* ---------------------------------------------------------------------------
\* Specifications
\* ---------------------------------------------------------------------------
NextSection == ProcessSectionElements

SpecSection == InitSection /\ [][NextSection]_vars

NextMeta == ExtractMetadata

SpecMeta == InitMeta /\ [][NextMeta]_vars

NextBook ==
    \/ ParseContent
    \/ ExtractCover
    \/ CreateChapters
    \/ AddAnnotation
    \/ WriteEpub

SpecBook == InitBook /\ [][NextBook]_vars

NextFile ==
    \/ FileOpen
    \/ ParseContent
    \/ ExtractCover
    \/ CreateChapters
    \/ AddAnnotation
    \/ WriteEpub
    \/ FileCreated
    \/ FileExcept

SpecFile == InitFile /\ [][NextFile]_vars

NextArchive ==
    \/ ArchiveList
    \/ ArchiveReadEntry
    \/ ParseContent
    \/ ExtractCover
    \/ CreateChapters
    \/ AddAnnotation
    \/ WriteEpub
    \/ ArchiveCollect
    \/ ArchiveExcept
    \/ ArchiveReturn

SpecArchive == InitArchive /\ [][NextArchive]_vars

\* ---------------------------------------------------------------------------
\* Properties of the content formatter
\* ---------------------------------------------------------------------------
UnderTitle(t, j) == \E i \in 1..Len(t) : t[i].tag = "title" /\ IsDescendant(t, i, j)

HasBelow(t, j, tag) == \E k \in 1..Len(t) : t[k].tag = tag /\ IsDescendant(t, j, k)

\* the elements of the section that the formatter is to render
Emitting(t, section) ==
    {j \in 1..Len(t) :
        /\ IsDescendant(t, section, j)
        /\ \/ t[j].tag = "p" /\ ~UnderTitle(t, j)
           \/ t[j].tag \in {"a", "subtitle"}}

InnerByPriority(t, j) ==
    IF HasBelow(t, j, "emphasis") THEN "<i>" \o get_text(t, j) \o "</i>"
    ELSE IF HasBelow(t, j, "a") THEN ""
    ELSE get_text(t, j)

\* C9: process_section_elements emits exactly one fragment per p (not under a
\* title), a and subtitle descendant, in document order; a p under a title
\* emits nothing; the inner text of a p is <i>text</i> with an emphasis
\* descendant, else empty with a link descendant, else the flattened text.
C9_FormatterOrderAndPriority ==
    pc = "formatted" =>
        /\ Len(content) = Cardinality(Emitting(soup, 1))
        /\ \A k \in 1..Len(content) : content[k].src \in Emitting(soup, 1)
        /\ \A k \in 1..(Len(content) - 1) : content[k].src < content[k + 1].src
        /\ \A k \in 1..Len(content) :
              soup[content[k].src].tag = "p" =>
                  content[k].html = P_OPEN \o InnerByPriority(soup, content[k].src) \o "</p>"

\* a paragraph with both an emphasis and a link below it, following a link,
\* has been formatted
C9_Witness ==
    /\ pc = "formatted"
    /\ Len(content) >= 3
    /\ \E k \in 2..Len(content) :
          /\ soup[content[k].src].tag = "p"
          /\ HasBelow(soup, content[k].src, "emphasis")
          /\ HasBelow(soup, content[k].src, "a")
          /\ soup[content[k - 1].src].tag = "a"

\* ---------------------------------------------------------------------------
\* Properties of the metadata extractor
\* ---------------------------------------------------------------------------
\* first node of the set, 0 when the set is empty
First(S) == IF S = {} THEN 0 ELSE CHOOSE i \in S : \A k \in S : i <= k

TitleInfo(t) == First({i \in 1..Len(t) : t[i].tag = "title-info"})

Below(t, i, tag) == {j \in 1..Len(t) : t[j].tag = tag /\ IsDescendant(t, i, j)}

\* text of the first `tag` part of the author, prefixed by the separator when
\* a part has been written before it
Part(t, a, tag, before) ==
    IF Below(t, a, tag) = {} THEN ""
    ELSE (IF before THEN " " ELSE "") \o get_text(t, First(Below(t, a, tag)))

ExpectedAuthor(t, a) ==
    LET hasFirst == Below(t, a, "first-name") # {}
        hasMiddle == Below(t, a, "middle-name") # {}
    IN Part(t, a, "first-name", FALSE)
       \o Part(t, a, "middle-name", hasFirst)
       \o Part(t, a, "last-name", hasFirst \/ hasMiddle)

\* C7: title is the text of the first book-title of title-info, else
\* "Unknown Title"; the author list has one entry per author node of
\* title-info, in source order, each the space-joined first, middle and last
\* name parts that are present, an author without parts giving "" at its
\* position; without title-info the title is the default and there are no
\* authors.
C7_TitleAndAuthors ==
    pc = "extracted" =>
        LET ti == TitleInfo(soup)
            authorNodes == Below(soup, ti, "author")
        IN IF ti = 0
           THEN metadata.title = "Unknown Title" /\ metadata.authors = <<>>
           ELSE /\ metadata.title =
                     IF Below(soup, ti, "book-title") = {} THEN "Unknown Title"
                     ELSE get_text(soup, First(Below(soup, ti, "book-title")))
                /\ Len(metadata.authors) = Cardinality(authorNodes)
                /\ \A a \in authorNodes :
                      LET k == Cardinality({b \in authorNodes : b <= a})
                      IN metadata.authors[k] = ExpectedAuthor(soup, a)

\* an author without name parts, followed by an author with two, was extracted
C7_Witness ==
    /\ pc = "extracted"
    /\ Len(metadata.authors) = 2
    /\ metadata.authors[1] = ""
    /\ metadata.authors[2] = "Ann Lee"

\* ---------------------------------------------------------------------------
\* Properties of the assembled book
\* ---------------------------------------------------------------------------
SectionsInBodies(t) ==
    {j \in 1..Len(t) :
        /\ t[j].tag = "section"
        /\ \E i \in 1..Len(t) : t[i].tag = "body" /\ IsDescendant(t, i, j)}

HasAnnotation(t) == TitleInfo(t) # 0 /\ Below(t, TitleInfo(t), "annotation") # {}

Reserved == {"cover.jpg", "cover.xhtml", "annotation.xhtml", "toc.ncx", "nav.xhtml"}

ChapterItems(b) == SelectSeq(b.items, LAMBDA it : it.file_name \notin Reserved)

AnnotationItems(b) == SelectSeq(b.items, LAMBDA it : it.file_name = "annotation.xhtml")

\* C4: N sections over any number of bodies give exactly N chapter items,
\* numbered 1..N in source order across bodies, with pairwise distinct file
\* names chapter_{k}.xhtml, and a TOC whose k-th chapter link carries the
\* file name and title of the k-th chapter; the book TOC has N entries, or
\* N+1 with the annotation link first when an annotation exists.
C4_ChaptersAndToc ==
    pc = "converted" =>
        LET ch == ChapterItems(book)
            secs == SectionsInBodies(soup)
            off == IF HasAnnotation(soup) THEN 1 ELSE 0
        IN /\ Len(ch) = Cardinality(secs)
           /\ \A k \in 1..Len(ch) :
                 /\ ch[k].file_name = "chapter_" \o ToString(k) \o ".xhtml"
                 /\ ch[k].content[1].src \in secs
                 /\ Cardinality({j \in secs : j <= ch[k].content[1].src}) = k
           /\ \A j, k \in 1..Len(ch) : j # k => ch[j].file_name # ch[k].file_name
           /\ Len(book.toc) = Len(ch) + off
           /\ off = 1 => book.toc[1].href = "annotation.xhtml"
           /\ \A k \in 1..Len(ch) :
                 /\ book.toc[k + off].href = ch[k].file_name
                 /\ book.toc[k + off].title = ch[k].title

\* a book with an annotation and sections in two bodies was assembled
C4_Witness ==
    /\ pc = "converted"
    /\ HasAnnotation(soup)
    /\ Len(book.toc) = 3
    /\ Cardinality({i \in 1..Len(soup) :
            soup[i].tag = "body" /\ Below(soup, i, "section") # {}}) = 2

\* C5: at the write step the spine is 'nav' followed by the chapters in
\* ordinal order, preceded by the annotation item, exactly once, when an
\* annotation exists.
C5_SpineOrder ==
    pc = "converted" =>
        book.spine = (IF HasAnnotation(soup) THEN AnnotationItems(book) ELSE <<>>)
                     \o <<Nav>> \o ChapterItems(book)

\* C6: the package language is the text of the first lang child of
\* title-info when present, "en" otherwise.
C6_Language ==
    pc = "converted" =>
        book.language =
            IF TitleInfo(soup) # 0 /\ Below(soup, TitleInfo(soup), "lang") # {}
            THEN get_text(soup, First(Below(soup, TitleInfo(soup), "lang")))
            ELSE "en"

FirstJpeg(t) ==
    First({j \in 1..Len(t) :
              /\ t[j].tag = "binary"
              /\ "content-type" \in DOMAIN t[j].attrs
              /\ t[j].attrs["content-type"] \in {"image/jpeg", "image/jpg"}})

CorruptCover(t) == FirstJpeg(t) # 0 /\ b64decode(strip(get_text(t, FirstJpeg(t)))).raised

\* the book convert_fb2_to_epub hands to write_epub for the document t
AssembleBook(t) ==
    add_navigation(
        insert_annotation(t,
            append_chapters(t, extract_cover_image(t, start_book(extract_metadata(t))).book),
            extract_metadata(t).annotation))

\* the document without the (childless) node j
WithoutNode(t, j) == SubSeq(t, 1, j - 1) \o SubSeq(t, j + 1, Len(t))

\* C8: when the first JPEG binary fails to decode the conversion still
\* reaches the write step and writes the package, the book has no cover
\* item, and its chapters, TOC and spine are those of the same document
\* without that binary node.
C8_CorruptCoverOmitted ==
    (CorruptCover(soup) /\ pc # "cover") =>
        /\ pc \in {"chapters", "annotation", "write", "converted"}
        /\ log = <<"Failed to decode cover image">>
        /\ \A k \in 1..Len(book.items) :
              book.items[k].file_name \notin {"cover.jpg", "cover.xhtml"}
        /\ pc = "converted" =>
              /\ output_path \in DOMAIN fs
              /\ fs[output_path] = book
              /\ ChapterItems(book) = ChapterItems(AssembleBook(WithoutNode(soup, FirstJpeg(soup))))
              /\ book.toc = AssembleBook(WithoutNode(soup, FirstJpeg(soup))).toc
              /\ book.spine = AssembleBook(WithoutNode(soup, FirstJpeg(soup))).spine

\* a document with a chapter and an undecodable cover was converted and the
\* failure logged
C8_Witness ==
    /\ pc = "converted"
    /\ CorruptCover(soup)
    /\ Len(ChapterItems(book)) >= 1
    /\ log # <<>>

\* the paragraphs of the body sections that are not part of a title
BodyParagraphs(t) ==
    {j \in 1..Len(t) :
        /\ t[j].tag = "p"
        /\ ~UnderTitle(t, j)
        /\ \E i \in SectionsInBodies(t) : IsDescendant(t, i, j)}

\* C10: every non-title paragraph of a body section is rendered in exactly
\* one chapter, also under nested sections.
C10_ParagraphInOneChapter ==
    pc = "converted" =>
        \A j \in BodyParagraphs(soup) :
            Cardinality({k \in 1..Len(ChapterItems(book)) :
                \E f \in 1..Len(ChapterItems(book)[k].content) :
                    ChapterItems(book)[k].content[f].src = j}) = 1

\* ---------------------------------------------------------------------------
\* Properties of the drivers
\* ---------------------------------------------------------------------------
\* C2: convert_file ends in an error outcome when the input is missing,
\* cannot be parsed or cannot be written: a returned path names an EPUB
\* written by this call.
C2_FailureReported ==
    (pc = "done" /\ ret.kind = "returned") =>
        /\ input.exists
        /\ input.content.fault = "none"
        /\ ret.value \in DOMAIN fs

\* the output paths of the FB2 entries whose own conversion succeeds
SucceedingPaths(entries) ==
    LET good == SelectSeq(entries,
                    LAMBDA e : e.name.ext = ".fb2" /\ e.content.fault = "none")
    IN [k \in 1..Len(good) |-> EpubPath(good[k].name.base)]

\* C1: a failing entry does not abort the loop of convert_archive: the
\* returned list holds the output path of exactly the entries whose
\* conversion succeeds, those after a failed one included.
C1_FailedEntrySkipped ==
    (pc = "done" /\ input.exists) =>
        /\ ret = Returned(SucceedingPaths(input.entries))
        /\ Range(SucceedingPaths(input.entries)) = DOMAIN fs

NoFb2Entry(entries) == \A k \in 1..Len(entries) : entries[k].name.ext # ".fb2"

\* C3: on an existing archive without a .fb2 entry convert_archive signals
\* the no-eligible-entries error internally, converts nothing, writes no
\* file and returns the empty list, no exception reaching the caller.
C3_NoEligibleEntries ==
    (input.exists /\ NoFb2Entry(input.entries)) =>
        /\ fs = NoFiles
        /\ book = NoBook
        /\ epub_files = <<>>
        /\ pc \in {"archive", "except", "done"}
        /\ pc = "except" => exc = "No FB2 files found in the ZIP archive"
        /\ pc = "done" =>
              /\ ret.kind = "returned"
              /\ ret.value = <<>>
              /\ log = <<"Failed to convert FB2 archive to EPUB: "
                          \o "No FB2 files found in the ZIP archive">>

\* an archive holding entries, none of them FB2, has been processed
C3_Witness ==
    /\ pc = "done"
    /\ input.exists
    /\ Len(input.entries) >= 2
    /\ NoFb2Entry(input.entries)
    /\ log # <<>>

====
